---------------------------- MODULE Spec2Model ----------------------------
(***************************************************************************)
(* Model of python-app-development-agent/product-dev-agentic-ai.py:        *)
(* the bounded group chat started by main(), the extraction of the code    *)
(* artifact from the last Developer message, the archival / approval /     *)
(* workspace-write / transcript steps that follow it, and the two guarded  *)
(* tools (write_file_tool with safe_path, run_shell_tool).                 *)
(*                                                                         *)
(* Python strings are sequences of one-character strings.  The backtick    *)
(* cannot be written inside a TLA+ string literal, so the character U+0060 *)
(* is the atom BT below; every other character is written as itself.       *)
(* Python's None is the value None, which is no character sequence.        *)
(***************************************************************************)
EXTENDS Naturals, Sequences, FiniteSets, TLC

VARIABLES
    \* ---- main(): the session
    pc,           \* position of main(): chat, extract, archive, approve, transcript, done, crashed
    messages,     \* group.messages: the transcript, records [name, content]
    code_text,    \* main(): content of the selected Developer message
    parsed,       \* main(): result of extract_code_block(code_text)
    msg,          \* main(): what save_generated_code returned
    prompted,     \* whether the approval prompt has been shown
    answer,       \* what the operator typed at the approval prompt
    result,       \* what write_file_tool returned to main() (or raised)
    exception,    \* the exception that left main() unhandled, or NoException
    \* ---- the filesystem below the process working directory
    files,        \* regular files: set of [path, content]
    dirs,         \* existing directories: set of paths
    links,        \* symbolic links: set of [path, target]
    \* ---- direct calls of the tools
    tool,         \* the last tool call and its outcome
    spawned,      \* argument vectors handed to subprocess.run
    calls,        \* number of direct tool calls made
    \* ---- extract_code_block exercised on its own
    xpc, text, art, rebuilt, art2

sessionVars == <<pc, messages, code_text, parsed, msg, prompted,
                 answer, result, exception>>
fsVars      == <<files, dirs, links>>
toolVars    == <<tool, spawned, calls>>
extractVars == <<xpc, text, art, rebuilt, art2>>
vars        == <<sessionVars, fsVars, toolVars, extractVars>>

--------------------------------------------------------------------------
(* Bounds of the model *)

\* number of line items inside the fenced block of a generated input text
MaxLines == 3
\* number of transcript messages whose content is enumerated in the session
MaxMsgs == 4
\* number of direct tool calls in a run of the tools
MaxCalls == 2

--------------------------------------------------------------------------
(* Characters and Python's str methods *)

BT == "backtick"
None == <<"None">>

Min(S) == CHOOSE m \in S : \A k \in S : m <= k
Max(S) == CHOOSE m \in S : \A k \in S : m >= k

UpperSeq == <<"A","B","C","D","E","F","G","H","I","J","K","L","M",
              "N","O","P","Q","R","S","T","U","V","W","X","Y","Z">>
LowerSeq == <<"a","b","c","d","e","f","g","h","i","j","k","l","m",
              "n","o","p","q","r","s","t","u","v","w","x","y","z">>
Digits   == {"0","1","2","3","4","5","6","7","8","9"}
Range(f) == {f[i] : i \in DOMAIN f}

\* the characters str.strip() removes and the line boundaries of str.splitlines()
Whitespace == {" ", "\t", "\n", "\r", "\f"}
LineBreaks == {"\n", "\r", "\f"}

\* the character class [a-zA-Z0-9_-] of the regular expression
TagChar(c) == c \in Range(UpperSeq) \cup Range(LowerSeq) \cup Digits \cup {"_", "-"}

lower_char(c) ==
    IF \E i \in DOMAIN UpperSeq : UpperSeq[i] = c
    THEN LowerSeq[CHOOSE i \in DOMAIN UpperSeq : UpperSeq[i] = c]
    ELSE c
lower(s) == [i \in 1..Len(s) |-> lower_char(s[i])]

startswith(s, p) == Len(s) >= Len(p) /\ SubSeq(s, 1, Len(p)) = p

strip(s) ==
    LET keep == {i \in 1..Len(s) : s[i] \notin Whitespace}
    IN  IF keep = {} THEN <<>> ELSE SubSeq(s, Min(keep), Max(keep))

\* str.splitlines(): "\r\n" is one boundary, no empty last line after a final boundary
RECURSIVE splitlines(_)
splitlines(s) ==
    IF s = <<>> THEN <<>>
    ELSE LET brk == {i \in 1..Len(s) : s[i] \in LineBreaks}
         IN  IF brk = {} THEN <<s>>
             ELSE LET i == Min(brk)
                      n == IF s[i] = "\r" /\ i < Len(s) /\ s[i+1] = "\n"
                           THEN i + 2 ELSE i + 1
                  IN  <<SubSeq(s, 1, i - 1)>> \o splitlines(SubSeq(s, n, Len(s)))

\* "\n".join(lines)
RECURSIVE join_nl(_)
join_nl(lines) ==
    IF lines = <<>> THEN <<>>
    ELSE IF Len(lines) = 1 THEN lines[1]
    ELSE lines[1] \o <<"\n">> \o join_nl(Tail(lines))

\* s.split(sep, 1)[1] for a one-character sep that occurs in s
split1_after(s, sep) ==
    LET i == Min({k \in 1..Len(s) : s[k] = sep})
    IN  SubSeq(s, i + 1, Len(s))

RECURSIVE Concat(_)
Concat(ss) == IF ss = <<>> THEN <<>> ELSE ss[1] \o Concat(Tail(ss))

--------------------------------------------------------------------------
(* extract_code_block *)

Fence == <<BT, BT, BT>>
FileMarker == <<"#", " ", "f", "i", "l", "e", ":">>

FenceAt(t, i) == i + 2 <= Len(t) /\ t[i] = BT /\ t[i+1] = BT /\ t[i+2] = BT

\* where the greedy [a-zA-Z0-9_-]* that starts at j stops
TagEnd(t, j) ==
    Min({k \in j..(Len(t) + 1) : IF k = Len(t) + 1 THEN TRUE ELSE ~TagChar(t[k])})

\* the pattern matches with its opening fence at i
MatchAt(t, i) ==
    /\ FenceAt(t, i)
    /\ LET k == TagEnd(t, i + 3)
       IN  /\ k <= Len(t)
           /\ t[k] = "\n"
           /\ \E c \in (k + 1)..Len(t) : FenceAt(t, c)

\* re.search: the leftmost match, its (.*?) as short as possible; group(1)
HasMatch(t) == \E i \in 1..Len(t) : MatchAt(t, i)
Group1(t) ==
    LET i == Min({j \in 1..Len(t) : MatchAt(t, j)})
        b == TagEnd(t, i + 3) + 1
        c == Min({j \in b..Len(t) : FenceAt(t, j)})
    IN  SubSeq(t, b, c - 1)

WithFileLineDropped(code) == join_nl(Tail(splitlines(code)))

extract_code_block(t) ==
    IF ~HasMatch(t) THEN [filename |-> None, code |-> <<>>]
    ELSE LET code == Group1(t)
             first_line == IF code # <<>> THEN strip(splitlines(code)[1]) ELSE <<>>
         IN  IF startswith(lower(first_line), FileMarker)
             THEN [filename |-> strip(split1_after(first_line, ":")),
                   code     |-> WithFileLineDropped(code)]
             ELSE [filename |-> None, code |-> code]

--------------------------------------------------------------------------
(* pathlib paths and the filesystem *)

Workspace     == <<"w", "o", "r", "k", "s", "p", "a", "c", "e">>
GeneratedCode == <<"g", "e", "n", "e", "r", "a", "t", "e", "d", "_", "c", "o", "d", "e">>
Transcripts   == <<"t", "r", "a", "n", "s", "c", "r", "i", "p", "t", "s">>
Up  == <<".", ".">>
Dot == <<".">>
Etc == <<"e", "t", "c">>
Lnk == <<"l", "n", "k">>

\* the working directory of the process: /srv/agent
Cwd == << <<"s", "r", "v">>, <<"a", "g", "e", "n", "t">> >>

Front(s) == SubSeq(s, 1, Len(s) - 1)
Last(s) == s[Len(s)]

\* s.split("/")
RECURSIVE SplitSlash(_)
SplitSlash(s) ==
    LET sl == {i \in 1..Len(s) : s[i] = "/"}
    IN  IF sl = {} THEN <<s>>
        ELSE <<SubSeq(s, 1, Min(sl) - 1)>> \o SplitSlash(SubSeq(s, Min(sl) + 1, Len(s)))

\* pathlib.Path(s): absolute when s starts with "/"; empty and "." components dropped
PathOf(s) ==
    [abs   |-> s # <<>> /\ s[1] = "/",
     parts |-> SelectSeq(SplitSlash(s), LAMBDA c : c # <<>> /\ c # Dot)]

\* a / b: an absolute b replaces a
Join(a, b) == IF b.abs THEN b ELSE [abs |-> a.abs, parts |-> a.parts \o b.parts]

WORK_DIR        == PathOf(Workspace)
TRANSCRIPTS_DIR == PathOf(Transcripts)
GENERATED_DIR   == PathOf(GeneratedCode)

LinkAt(p) == \E l \in links : l.path = p
LinkTarget(p) == (CHOOSE l \in links : l.path = p).target

\* Path.resolve(): the path made absolute, ".." and symbolic links resolved
\* (a component that does not exist is kept as it is)
RECURSIVE Walk(_, _)
Walk(cur, rest) ==
    IF rest = <<>> THEN cur
    ELSE LET c == Head(rest)
         IN  IF c = Up
             THEN Walk(IF cur = <<>> THEN <<>> ELSE Front(cur), Tail(rest))
             ELSE LET n == Append(cur, c)
                  IN  Walk(IF LinkAt(n) THEN LinkTarget(n) ELSE n, Tail(rest))
Resolve(p) == Walk(IF p.abs THEN <<>> ELSE Cwd, p.parts)

\* p.parents of an absolute path: every proper ancestor, "/" included
Parents(p) == {SubSeq(p, 1, k) : k \in 0..(Len(p) - 1)}

\* directories that exist when the module has been imported (lines 50-55 create the
\* three of the program); /etc stands for the rest of the machine
InitDirs ==
    Parents(Cwd) \cup {Cwd, <<Etc>>}
    \cup {Resolve(WORK_DIR), Resolve(TRANSCRIPTS_DIR), Resolve(GENERATED_DIR)}

\* what the operator may have put into workspace/ beforehand: nothing, or a
\* symbolic link workspace/lnk -> /etc
LinkChoices == { {}, {[path |-> Cwd \o <<Workspace, Lnk>>, target |-> <<Etc>>]} }

IsFile(F, p) == \E f \in F : f.path = p
Raised(kind) ==
    kind \in {"ValueError", "FileExistsError", "NotADirectoryError",
              "FileNotFoundError", "IsADirectoryError"}

\* the directory the operating system reaches following `rest` from `cur`, every
\* component of which must be an existing directory
RECURSIVE OsWalk(_, _, _)
OsWalk(cur, rest, D) ==
    IF rest = <<>> THEN [ok |-> TRUE, at |-> cur]
    ELSE LET c == Head(rest)
         IN  IF c = Up
             THEN OsWalk(IF cur = <<>> THEN <<>> ELSE Front(cur), Tail(rest), D)
             ELSE LET n == Append(cur, c)
                      t == IF LinkAt(n) THEN LinkTarget(n) ELSE n
                  IN  IF t \in D THEN OsWalk(t, Tail(rest), D)
                      ELSE [ok |-> FALSE, at |-> t]

\* Path.write_text(content) on filesystem (F, D): [kind, path, files]
write_text(p, content, F, D) ==
    LET start == IF p.abs THEN <<>> ELSE Cwd
    IN  IF p.parts = <<>>
        THEN [kind |-> "IsADirectoryError", path |-> start, files |-> F]
        ELSE LET w == OsWalk(start, Front(p.parts), D)
                 c == Last(p.parts)
                 n == Append(w.at, c)
                 t == IF LinkAt(n) THEN LinkTarget(n) ELSE n
             IN  IF ~w.ok
                 THEN [kind |-> IF IsFile(F, w.at) THEN "NotADirectoryError"
                                ELSE "FileNotFoundError",
                       path |-> w.at, files |-> F]
                 ELSE IF c = Up \/ t \in D
                 THEN [kind |-> "IsADirectoryError", path |-> t, files |-> F]
                 ELSE [kind |-> "Wrote", path |-> t,
                       files |-> {f \in F : f.path # t}
                                 \cup {[path |-> t, content |-> content]}]

\* Path.mkdir(parents=True, exist_ok=True) of an absolute resolved path: [kind, dirs]
mkdir_parents(d, F, D) ==
    IF IsFile(F, d) THEN [kind |-> "FileExistsError", dirs |-> D]
    ELSE IF \E a \in Parents(d) : IsFile(F, a)
    THEN [kind |-> "NotADirectoryError", dirs |-> D]
    ELSE [kind |-> "ok", dirs |-> D \cup Parents(d) \cup {d}]

--------------------------------------------------------------------------
(* safe_path, write_file_tool, run_shell_tool *)

\* the same check made on the path before resolve()
safe_path_unresolved(rel_path) ==
    LET j == Join(WORK_DIR, PathOf(rel_path))
        u == (IF j.abs THEN <<>> ELSE Cwd) \o j.parts
    IN  [ok |-> ~(Resolve(WORK_DIR) \notin Parents(u) /\ u # Resolve(WORK_DIR)),
         path |-> Resolve(j)]

\* ok = FALSE stands for raise ValueError("Unsafe path.")
safe_path(rel_path) ==
    LET p == Resolve(Join(WORK_DIR, PathOf(rel_path)))
    IN  [ok |-> ~(Resolve(WORK_DIR) \notin Parents(p) /\ p # Resolve(WORK_DIR)),
         path |-> p]

\* [kind, path, files, dirs]: kind "MissingArg" and "Wrote" are return values, the
\* other kinds are exceptions that leave the function
write_file_tool(filename, content) ==
    IF filename \in {None, <<>>} \/ content \in {None, <<>>}
    THEN [kind |-> "MissingArg", path |-> <<>>, files |-> files, dirs |-> dirs]
    ELSE LET sp == safe_path(filename)
         IN  IF ~sp.ok
             THEN [kind |-> "ValueError", path |-> sp.path, files |-> files, dirs |-> dirs]
             ELSE LET mk == mkdir_parents(Front(sp.path), files, dirs)
                      wr == write_text([abs |-> TRUE, parts |-> sp.path], content,
                                       files, mk.dirs)
                  IN  IF mk.kind # "ok"
                      THEN [kind |-> mk.kind, path |-> sp.path,
                            files |-> files, dirs |-> dirs]
                      ELSE [kind |-> wr.kind, path |-> sp.path,
                            files |-> wr.files, dirs |-> mk.dirs]

allowed_prefixes ==
    { <<"e", "c", "h", "o", " ">>, <<"p", "y", "t", "h", "o", "n", " ">>,
      <<"p", "y", "t", "e", "s", "t">>, <<"l", "s">>, <<"c", "a", "t", " ">> }

\* shlex.split of a command line without quotes or backslashes: its words
RECURSIVE shlex_split(_)
shlex_split(command) ==
    LET s == strip(command)
        ws == {i \in 1..Len(s) : s[i] \in Whitespace}
    IN  IF s = <<>> THEN <<>>
        ELSE IF ws = {} THEN <<s>>
        ELSE <<SubSeq(s, 1, Min(ws) - 1)>> \o shlex_split(SubSeq(s, Min(ws) + 1, Len(s)))

\* `ran` is what subprocess.run did: TRUE, it returned; FALSE, it raised (the
\* program is missing, or the 30 s timeout expired).  [kind, argv]: argv is what
\* was handed to subprocess.run, <<>> when it was never called
run_shell_tool(command, ran) ==
    IF ~(\E p \in allowed_prefixes : startswith(command, p))
    THEN [kind |-> "Rejected", argv |-> <<>>]
    ELSE [kind |-> IF ran THEN "Exit" ELSE "Error", argv |-> shlex_split(command)]

--------------------------------------------------------------------------
(* Idle values of the variable groups a specification does not use *)

NoException == "none"
NoResult == [kind |-> "none", path |-> <<>>]
NoTool == [op |-> "none", arg |-> <<>>, content |-> <<>>, kind |-> "none", path |-> <<>>]

SessionIdle ==
    /\ pc = "idle" /\ messages = <<>> /\ code_text = <<>>
    /\ parsed = [filename |-> None, code |-> <<>>]
    /\ msg = "none" /\ prompted = FALSE /\ answer = <<>>
    /\ result = NoResult /\ exception = NoException
FsIdle == files = {} /\ dirs = {} /\ links = {}
ToolIdle == tool = NoTool /\ spawned = {} /\ calls = 0
ExtractIdle ==
    /\ xpc = "idle" /\ text = <<>> /\ rebuilt = <<>>
    /\ art = [filename |-> None, code |-> <<>>]
    /\ art2 = [filename |-> None, code |-> <<>>]

--------------------------------------------------------------------------
(* extract_code_block on generated texts, and on the text rebuilt from its result *)

S(c) == <<c>>
AppPy == <<"a", "p", "p", ".", "p", "y">>
Print1 == <<"p", "r", "i", "n", "t", "(", "1", ")">>

\* lines a block may hold: filename declarations in several spellings, code, a blank
LineItems ==
    { FileMarker \o S(" ") \o AppPy,
      <<" ", "#", " ", "F", "i", "l", "e", ":", "a", ":", "b", " ">>,
      Print1,
      FileMarker,
      <<>> }
LineEnds == { <<"\n">>, <<"\r", "\n">>, <<>> }

BlockBodies ==
    UNION { { Concat([i \in 1..n |-> ls[i] \o es[i]]) :
                ls \in [1..n -> LineItems], es \in [1..n -> LineEnds] } :
            n \in 0..MaxLines }

\* what surrounds the block: nothing; prose with a stray backtick and a language
\* tag; a second fenced block after it
Wrappers ==
    { [pre |-> <<>>, tag |-> <<>>, post |-> <<>>],
      [pre |-> <<"h", "i", " ", BT>>, tag |-> <<"p", "y">>, post |-> <<>>],
      [pre |-> <<>>, tag |-> <<>>,
       post |-> <<"\n">> \o Fence \o <<"\n", "y", "\n">> \o Fence] }

ExtractInputs ==
    { w.pre \o Fence \o w.tag \o <<"\n">> \o b \o Fence \o w.post :
        w \in Wrappers, b \in BlockBodies }
    \cup { Print1, Fence \o Print1 \o Fence, Fence \o <<"\n">> \o Print1 }

\* the fenced block rebuilt from an artifact: the filename line, when there is a
\* filename, then the body, between two fences
Rebuild(a) ==
    Fence \o <<"\n">>
    \o (IF a.filename # None THEN FileMarker \o S(" ") \o a.filename \o <<"\n">> ELSE <<>>)
    \o a.code \o Fence

InitExtract ==
    /\ SessionIdle /\ FsIdle /\ ToolIdle
    /\ xpc = "start" /\ text \in ExtractInputs /\ rebuilt = <<>>
    /\ art = [filename |-> None, code |-> <<>>]
    /\ art2 = [filename |-> None, code |-> <<>>]

DoExtract ==
    /\ xpc = "start"
    /\ art' = extract_code_block(text)
    /\ xpc' = "extracted"
    /\ UNCHANGED <<text, rebuilt, art2, sessionVars, fsVars, toolVars>>

DoRebuild ==
    /\ xpc = "extracted"
    /\ art.code # <<>>
    /\ rebuilt' = Rebuild(art)
    /\ xpc' = "rebuilt"
    /\ UNCHANGED <<text, art, art2, sessionVars, fsVars, toolVars>>

DoReExtract ==
    /\ xpc = "rebuilt"
    /\ art2' = extract_code_block(rebuilt)
    /\ xpc' = "reextracted"
    /\ UNCHANGED <<text, art, rebuilt, sessionVars, fsVars, toolVars>>

NextExtract == DoExtract \/ DoRebuild \/ DoReExtract
SpecExtract == InitExtract /\ [][NextExtract]_vars

--------------------------------------------------------------------------
(* Claims about extract_code_block *)

\* the block's content starts with the line "# file: <name>" ended by "\n",
\* <name> being non-empty and free of whitespace
FirstBreak(code) == Min({i \in 1..Len(code) : code[i] \in LineBreaks})
DeclaresFile(code) ==
    /\ startswith(code, FileMarker \o S(" "))
    /\ \E i \in 1..Len(code) : code[i] \in LineBreaks
    /\ code[FirstBreak(code)] = "\n"
    /\ FirstBreak(code) > Len(FileMarker) + 2
    /\ \A i \in (Len(FileMarker) + 2)..(FirstBreak(code) - 1) : code[i] \notin Whitespace
DeclaredName(code) == SubSeq(code, Len(FileMarker) + 2, FirstBreak(code) - 1)
AfterFirstLine(code) == SubSeq(code, FirstBreak(code) + 1, Len(code))

\* C8: when the first line of the first fenced block is "# file: <name>",
\* extract_code_block returns filename = <name> and, as body, the block's content
\* with exactly that line removed and everything after it unchanged (the trailing
\* newline included): "# file: app.py\nprint(1)\n" gives "app.py" and "print(1)\n".
C8_BodyIsBlockMinusFirstLine ==
    (xpc # "start" /\ HasMatch(text) /\ DeclaresFile(Group1(text)))
        => /\ art.filename = DeclaredName(Group1(text))
           /\ art.code = AfterFirstLine(Group1(text))

\* C9: for a text whose extraction gives a non-empty artifact, extracting again
\* from the block rebuilt from that artifact gives the same filename and body.
C9_ReExtractSameArtifact ==
    xpc = "reextracted" => (art2.filename = art.filename /\ art2.code = art.code)

--------------------------------------------------------------------------
(* write_file_tool called directly (tool_write_file) *)

Passwd == <<"p", "a", "s", "s", "w", "d">>
Sub == <<"s", "u", "b">>
Sl == <<"/">>
EscapingName == Up \o Sl \o Up \o Sl \o Etc \o Sl \o Passwd
AbsoluteName == Sl \o Etc \o Sl \o Passwd
NestedName   == Sub \o Sl \o <<"d", "i", "r">> \o Sl
                \o <<"f", "i", "l", "e", ".", "t", "x", "t">>

Filenames ==
    { EscapingName, AbsoluteName, NestedName,
      AppPy, Sub, Up, Dot, <<>>, None,
      Lnk \o Sl \o Passwd,
      Sub \o Sl \o Up \o Sl \o Up \o Sl \o AppPy,
      Up \o Sl \o Workspace \o <<"2">> \o Sl \o AppPy,
      Up \o Sl \o Workspace \o Sl \o AppPy,
      Sl \o <<"s", "r", "v">> \o Sl \o <<"a", "g", "e", "n", "t">> \o Sl
         \o Workspace \o Sl \o AppPy }
Contents == { <<"x">>, Print1, <<>>, None }

InitFs ==
    /\ links \in LinkChoices
    /\ files = {}
    /\ dirs = InitDirs

InitWrite ==
    /\ SessionIdle /\ ExtractIdle /\ InitFs
    /\ tool = NoTool /\ spawned = {} /\ calls = 0

ToolWriteFile(filename, content) ==
    /\ calls < MaxCalls
    /\ LET r == write_file_tool(filename, content)
       IN  /\ tool' = [op |-> "write_file", arg |-> filename, content |-> content,
                       kind |-> r.kind, path |-> r.path]
           /\ files' = r.files
           /\ dirs' = r.dirs
    /\ calls' = calls + 1
    /\ UNCHANGED <<links, spawned, sessionVars, extractVars>>

NextWrite == \E f \in Filenames, c \in Contents : ToolWriteFile(f, c)
SpecWrite == InitWrite /\ [][NextWrite]_vars

--------------------------------------------------------------------------
(* run_shell_tool called directly (tool_run_shell) *)

Hi == <<"h", "i">>
RmRf == <<"r", "m", " ", "-", "r", "f", " ", "/">>
EchoHi == <<"e", "c", "h", "o", " ">> \o Hi
Chained == EchoHi \o <<" ", "&", "&", " ">> \o RmRf

Commands ==
    { RmRf, EchoHi, Chained,
      <<"e", "c", "h", "o">>, <<"l", "s">>, <<"l", "s", "b", "l", "k">>,
      <<"c", "a", "t", " ">> \o AbsoluteName,
      <<"p", "y", "t", "e", "s", "t">>,
      <<"p", "y", "t", "h", "o", "n", " ">> \o AppPy,
      <<" ">> \o EchoHi,
      <<>> }

InitShell ==
    /\ SessionIdle /\ ExtractIdle /\ InitFs
    /\ tool = NoTool /\ spawned = {} /\ calls = 0

ToolRunShell(command, ran) ==
    /\ calls < MaxCalls
    /\ LET r == run_shell_tool(command, ran)
       IN  /\ tool' = [op |-> "run_shell", arg |-> command, content |-> <<>>,
                       kind |-> r.kind, path |-> r.argv]
           /\ spawned' = IF r.kind = "Rejected" THEN spawned
                         ELSE spawned \cup {r.argv}
    /\ calls' = calls + 1
    /\ UNCHANGED <<fsVars, sessionVars, extractVars>>

NextShell == \E c \in Commands, ran \in BOOLEAN : ToolRunShell(c, ran)
SpecShell == InitShell /\ [][NextShell]_vars

--------------------------------------------------------------------------
(* main(): the group chat *)

Human          == <<"H", "u", "m", "a", "n">>
ProductManager == <<"P", "r", "o", "d", "u", "c", "t", "M", "a", "n", "a", "g", "e", "r">>
Developer      == <<"D", "e", "v", "e", "l", "o", "p", "e", "r">>
QAEngineer     == <<"Q", "A", "E", "n", "g", "i", "n", "e", "e", "r">>

\* GroupChat(agents=[human, pm, dev, qa], messages=[], max_round=10)
agents == <<Human, ProductManager, Developer, QAEngineer>>
max_round == 10

\* what the participants may say
Plain == <<"o", "k">>
Block(body) == <<"s", "e", "e", "\n">> \o Fence \o <<"p", "y", "\n">> \o body \o Fence
Decl(name) == FileMarker \o S(" ") \o name \o <<"\n">>
Code1 == Print1 \o <<"\n">>
Code2 == <<"x", "=", "2", "\n">>
TestPy == <<"t", ".", "p", "y">>

DeveloperTexts ==
    { Plain,
      Block(Code1),
      Block(Decl(AppPy) \o Code2),
      Block(Decl(AppPy)),
      Block(Decl(Up) \o Code1),
      Block(Decl(Dot) \o Code1),
      Block(Decl(Sub \o Sl \o AppPy) \o Code1) }
ReviewerTexts == { Plain, Block(Decl(TestPy) \o <<"a", "s", "s", "e", "r", "t", "\n">>) }
EnumeratedTexts ==
    [a \in Range(agents) |->
        IF a = Developer THEN DeveloperTexts
        ELSE IF a = QAEngineer THEN ReviewerTexts
        ELSE { Plain }]
PlainTexts == [a \in Range(agents) |-> { Plain }]

Answers == { <<"y">>, <<" ", "Y">>, <<"n">>, <<"y", "e", "s">> }

\* human.initiate_chat(manager, message=...): the first message is the Human's;
\* workspace/ holds no symbolic link
InitSession ==
    /\ ExtractIdle /\ ToolIdle
    /\ links = {} /\ files = {} /\ dirs = InitDirs
    /\ pc = "chat"
    /\ messages = <<[name |-> Human, content |-> Plain]>>
    /\ code_text = <<>>
    /\ parsed = [filename |-> None, code |-> <<>>]
    /\ msg = "none" /\ prompted = FALSE /\ answer = <<>>
    /\ result = NoResult /\ exception = NoException

\* one more message of the group chat.  No speaker_selection_method is given, so the
\* manager has the next speaker chosen for it: any of the agents, a repeat included.
\* At most max_round messages are taken; the content is one of texts[speaker], and
\* only the first n messages are enumerated.
Round(texts, n) ==
    /\ pc = "chat"
    /\ Len(messages) < max_round
    /\ Len(messages) < n
    /\ \E i \in DOMAIN agents : \E c \in texts[agents[i]] :
          messages' = Append(messages, [name |-> agents[i], content |-> c])
    /\ UNCHANGED <<pc, code_text, parsed, msg, prompted, answer, result, exception,
                   fsVars, toolVars, extractVars>>

Speak == Round(EnumeratedTexts, MaxMsgs)
SpeakPlain == Round(PlainTexts, max_round)

\* the chat ends: a participant ends it (the human types exit, a reply is None or a
\* termination message), or max_round messages have been taken
EndChat ==
    /\ pc = "chat"
    /\ pc' = "extract"
    /\ UNCHANGED <<messages, code_text, parsed, msg, prompted, answer, result,
                   exception, fsVars, toolVars, extractVars>>

NextChat == SpeakPlain \/ EndChat
SpecChat == InitSession /\ [][NextChat]_vars

--------------------------------------------------------------------------
(* main(): after the chat *)

any_msgs(ms) == ms
\* [m for m in group.messages if (m.get("name") or "").lower() == "developer"]
dev_msgs(ms) == SelectSeq(ms, LAMBDA m : lower(m.name) = lower(Developer))

first_content(dm) == IF dm # <<>> THEN dm[1].content ELSE <<>>
\* dev_msgs[-1]["content"] if dev_msgs else ""
last_content(dm) == IF dm # <<>> THEN dm[Len(dm)].content ELSE <<>>

SelectAndExtract ==
    /\ pc = "extract"
    /\ code_text' = last_content(dev_msgs(messages))
    /\ parsed' = extract_code_block(code_text')
    /\ pc' = "archive"
    /\ UNCHANGED <<messages, msg, prompted, answer, result, exception,
                   fsVars, toolVars, extractVars>>

\* time.strftime("%Y%m%d-%H%M%S")
Timestamp == <<"2", "0", "2", "5", "0", "8", "3", "0", "-", "0", "8", "3", "6", "0", "6">>
SnippetPy == <<"s", "n", "i", "p", "p", "e", "t", ".", "p", "y">>

\* [kind, files]: kind "NoCode" and "Saved" are the two messages returned, any other
\* kind is the exception write_text raised
save_generated_code(p) ==
    IF p.code = <<>>
    THEN [kind |-> "NoCode", files |-> files]
    ELSE LET filename == IF p.filename \in {None, <<>>} THEN SnippetPy ELSE p.filename
             dest == Join(GENERATED_DIR, PathOf(Timestamp \o <<"-">> \o filename))
             w == write_text(dest, p.code, files, dirs)
         IN  [kind |-> IF w.kind = "Wrote" THEN "Saved" ELSE w.kind, files |-> w.files]

Archive ==
    /\ pc = "archive"
    /\ LET r == save_generated_code(parsed)
       IN  IF Raised(r.kind)
           THEN /\ exception' = r.kind
                /\ pc' = "crashed"
                /\ UNCHANGED <<msg, files>>
           ELSE /\ msg' = r.kind
                /\ files' = r.files
                /\ pc' = IF parsed.code # <<>> THEN "approve" ELSE "transcript"
                /\ UNCHANGED exception
    /\ UNCHANGED <<messages, code_text, parsed, prompted, answer, result,
                   dirs, links, toolVars, extractVars>>

\* the approval prompt and what follows it
Approve(typed) ==
    /\ pc = "approve"
    /\ prompted' = TRUE
    /\ answer' = typed
    /\ IF lower(strip(typed)) = <<"y">>
       THEN LET filename == IF parsed.filename \in {None, <<>>} THEN AppPy
                            ELSE parsed.filename
                r == write_file_tool(filename, parsed.code)
            IN  /\ result' = [kind |-> r.kind, path |-> r.path]
                /\ files' = r.files
                /\ dirs' = r.dirs
                /\ IF Raised(r.kind)
                   THEN exception' = r.kind /\ pc' = "crashed"
                   ELSE pc' = "transcript" /\ UNCHANGED exception
       ELSE /\ pc' = "transcript"
            /\ UNCHANGED <<result, files, dirs, exception>>
    /\ UNCHANGED <<messages, code_text, parsed, msg, links, toolVars, extractVars>>

\* the text save_transcript writes
RECURSIVE TranscriptLines(_)
TranscriptLines(ms) ==
    IF ms = <<>> THEN <<>>
    ELSE << <<"#", "#", "#", " ">> \o Head(ms).name \o <<"\n", "\n">>
            \o Head(ms).content \o <<"\n", "\n", "-", "-", "-", "\n">> >>
         \o TranscriptLines(Tail(ms))

SessionFile == <<"s", "e", "s", "s", "i", "o", "n", "-">> \o Timestamp \o <<".", "m", "d">>

save_transcript(ms) ==
    write_text(Join(TRANSCRIPTS_DIR, PathOf(SessionFile)),
               join_nl(TranscriptLines(ms)), files, dirs)

SaveTranscript ==
    /\ pc = "transcript"
    /\ LET w == save_transcript(messages)
       IN  /\ files' = w.files
           /\ IF Raised(w.kind)
              THEN exception' = w.kind /\ pc' = "crashed"
              ELSE pc' = "done" /\ UNCHANGED exception
    /\ UNCHANGED <<messages, code_text, parsed, msg, prompted, answer, result,
                   dirs, links, toolVars, extractVars>>

Next ==
    \/ Speak
    \/ EndChat
    \/ SelectAndExtract
    \/ Archive
    \/ \E typed \in Answers : Approve(typed)
    \/ SaveTranscript

Spec == InitSession /\ [][Next]_vars

--------------------------------------------------------------------------
(* Claims about the tools *)

ShellOperators == {"&", "|", ";"}
HasShellOperator(c) == \E i \in 1..Len(c) : c[i] \in ShellOperators
\* the command line is a single command that starts with an allowlisted prefix
MatchesAllowlist(c) ==
    (\E p \in allowed_prefixes : startswith(c, p)) /\ ~HasShellOperator(c)

\* C2: run_shell_tool lets a command line through only when it matches the
\* allowlist: "rm -rf /" is rejected, "echo hi" is allowed, and a line that starts
\* with an allowed prefix but chains a second command with a shell operator
\* ("echo hi && rm -rf /") is rejected; a rejected line returns the policy message
\* and nothing is handed to subprocess.run.
C2_OnlyAllowlistedCommandsRun ==
    tool.op = "run_shell" =>
        /\ (tool.arg = RmRf => tool.kind = "Rejected")
        /\ (tool.arg = EchoHi => tool.kind # "Rejected")
        /\ (~MatchesAllowlist(tool.arg) => tool.kind = "Rejected")
        /\ \A argv \in spawned :
              \E c \in Commands : MatchesAllowlist(c) /\ shlex_split(c) = argv

IsAtOrBelow(root, p) == p = root \/ root \in Parents(p)
SandboxRoot == Cwd \o <<Workspace>>

\* C3 (state part): whatever write_file_tool has created or written is at or below
\* SandboxRoot; "../../etc/passwd" and the absolute "/etc/passwd" are refused with
\* ValueError; "sub/dir/file.txt" passes safe_path and SandboxRoot is among the
\* parents of the path it resolves to.
C3_State ==
    /\ \A f \in files : IsAtOrBelow(SandboxRoot, f.path)
    /\ \A d \in dirs \ InitDirs : IsAtOrBelow(SandboxRoot, d)
    /\ (tool.op = "write_file" /\ tool.kind # "MissingArg") =>
          /\ (tool.arg \in {EscapingName, AbsoluteName} => tool.kind = "ValueError")
          /\ (tool.arg = NestedName =>
                 tool.kind # "ValueError" /\ SandboxRoot \in Parents(tool.path))
          /\ (~IsAtOrBelow(SandboxRoot, tool.path) => tool.kind = "ValueError")

\* C3: for every filename passed to write_file_tool, after any sequence of calls,
\* every file or directory it has created lies at or below SandboxRoot, the check
\* of safe_path comes before any directory creation or write (a refused call
\* changes nothing), escaping names are refused and a nested relative name is
\* accepted below SandboxRoot.
C3_WritesStayInSandbox ==
    /\ []C3_State
    /\ [][(calls' # calls /\ tool'.kind = "ValueError") => UNCHANGED <<files, dirs>>]_vars

\* a nested file has been written below SandboxRoot, and an escaping name has been
\* refused after it
C3_Witness ==
    /\ \E f \in files : Len(f.path) = Len(SandboxRoot) + 3 /\ IsAtOrBelow(SandboxRoot, f.path)
    /\ tool.op = "write_file" /\ tool.arg = EscapingName /\ tool.kind = "ValueError"

--------------------------------------------------------------------------
(* Claims about the session *)

Approved == lower(strip(answer)) = <<"y">>
WorkspaceFiles   == {f \in files : IsAtOrBelow(SandboxRoot, f.path)}
GeneratedFiles   == {f \in files : IsAtOrBelow(Cwd \o <<GeneratedCode>>, f.path)}
TranscriptFiles  == {f \in files : IsAtOrBelow(Cwd \o <<Transcripts>>, f.path)}
ByDeveloper == {i \in 1..Len(messages) : messages[i].name = Developer}
\* the name the approved write is made under
ProposedName == IF parsed.filename \in {None, <<>>} THEN AppPy ELSE parsed.filename

\* C1: the speakers of the transcript follow the round-robin order Human,
\* ProductManager, Developer, QAEngineer, round after round, and the number of
\* rounds (passes through the four speakers) never exceeds max_round = 10.
C1_RoundRobinWithinLimit ==
    /\ \A i \in 1..Len(messages) : messages[i].name = agents[((i - 1) % Len(agents)) + 1]
    /\ Len(messages) \div Len(agents) <= max_round

\* C4: when the approved workspace write resolves outside SandboxRoot, the write
\* is refused, main() receives a rejection as a return value, nothing is written,
\* and no exception ends the session before its remaining steps have run.
C4_EscapingWriteRefusedByReturnValue ==
    (prompted /\ Approved /\ ~safe_path(ProposedName).ok) =>
        /\ ~Raised(result.kind)
        /\ exception = NoException
        /\ pc # "crashed"
        /\ WorkspaceFiles = {}

\* C5: in every session whose last Developer message yields a non-empty body,
\* whatever filename it declares, the archival copy under generated_code/ exists
\* from before the approval prompt on, whatever the answer; the workspace copy is
\* written only after an approval, and a decline leaves workspace/ untouched and
\* raises nothing.
C5_ArchiveAlwaysWorkspaceOnlyIfApproved ==
    (pc \notin {"chat", "extract", "archive"} /\ parsed.code # <<>>) =>
        /\ \E f \in GeneratedFiles : f.content = parsed.code
        /\ (~(prompted /\ Approved) => WorkspaceFiles = {})
        /\ ((prompted /\ ~Approved) => (exception = NoException /\ pc # "crashed"))

\* C6: once the process has finished, the transcript has been written under
\* transcripts/, whatever the extraction result, the approval decision and the
\* outcome of the workspace write step.  (Stated for the sessions in which
\* save_generated_code returned, so that a fault of the archival write is not
\* what refutes it.)
C6_TranscriptAlwaysWritten ==
    (pc \in {"done", "crashed"} /\ msg # "none") => TranscriptFiles # {}

\* C7: a session whose transcript holds no Developer message ends with the
\* artifact save reporting "no code found", nothing under generated_code/, no
\* approval prompt, no workspace write and no exception.
C7_NoDeveloperMessageNoCode ==
    (pc \notin {"chat", "extract"} /\ ByDeveloper = {}) =>
        /\ code_text = <<>> /\ parsed.code = <<>>
        /\ pc \in {"archive", "transcript", "done"}
        /\ (pc # "archive" => msg = "NoCode")
        /\ GeneratedFiles = {} /\ WorkspaceFiles = {}
        /\ ~prompted /\ result = NoResult
        /\ exception = NoException

\* a finished session without a Developer message in which another participant
\* posted a fenced block
C7_Witness ==
    /\ pc = "done" /\ ByDeveloper = {} /\ msg = "NoCode"
    /\ \E i \in 1..Len(messages) : HasMatch(messages[i].content)
    /\ TranscriptFiles # {}

\* C10: after the chat, the text handed to extract_code_block is the content of
\* the last transcript message whose speaker is the Developer ("" when there is
\* none): neither a later message of another speaker nor an earlier Developer
\* message supplies the artifact.
C10_ArtifactFromLastDeveloperMessage ==
    pc \notin {"chat", "extract"} =>
        code_text = IF ByDeveloper = {} THEN <<>>
                    ELSE messages[Max(ByDeveloper)].content

\* two Developer messages with different blocks, then a QAEngineer message with a
\* block of its own; the artifact is that of the second Developer message
C10_Witness ==
    /\ pc = "done"
    /\ \E i, j, k \in 1..Len(messages) :
          /\ i < j /\ j < k
          /\ messages[i].name = Developer /\ messages[j].name = Developer
          /\ messages[k].name = QAEngineer
          /\ HasMatch(messages[i].content) /\ HasMatch(messages[k].content)
          /\ messages[i].content # messages[j].content
          /\ code_text = messages[j].content
    /\ parsed.code # <<>>

==========================================================================
